---- MODULE Spec2Model ----
(***************************************************************************)
(* slog-gorm: a gorm logger that forwards to a slog.Handler.               *)
(*                                                                         *)
(* The configuration (config.go) is modelled from its source.  The adapter *)
(* (type logger: New, NewWithConfig, LogMode, Info, Warn, Error, Trace,    *)
(* ParamsFilter) has no source file in src/: only its tests are there, so  *)
(* it is modelled from sections 4.2 - 4.5 of the specification.            *)
(*                                                                         *)
(* Pointers are addresses: *config is an index of cfgs, a Go map is an     *)
(* index of maps (0 is the nil map), *logger is an index of loggers.       *)
(* Durations are in milliseconds.                                          *)
(***************************************************************************)
EXTENDS Integers, Sequences, FiniteSets, TLC

VARIABLES
    cfgs,      \* heap of config structs, by address
    maps,      \* heap of map[string]any values, by address
    loggers,   \* heap of logger structs, by address
    call,      \* the last operation called and its arguments
    ret,       \* what the last operation returned
    emitted,   \* the records the last operation handed to the slog.Handler
    panicked,  \* the panic value of the last operation, "" when it returned
    lastSet,   \* history: per config, the value each field was last given
    pristine,  \* history: per config, whether it is as NewConfig returned it
    nops,      \* number of operations called so far, where a specification counts
    chain      \* history: the levels of the LogMode calls of a chain, in order

vars == <<cfgs, maps, loggers, call, ret, emitted, panicked, lastSet, pristine, nops, chain>>

----------------------------------------------------------------------------
\* Bounds of the model

MaxCfgs == 3
MaxMaps == 4
MaxLoggers == 3
MaxOps == 3
MaxChain == 4

----------------------------------------------------------------------------
\* Values

NilHandler == "nil"
DefaultHandler == "default"
Handlers == {DefaultHandler, "json"}

NilMap == 0
EmptyMap == [n \in {} |-> ""]
\* the map literals callers pass to WithContextKeys: attribute name -> context key
MapLiterals == {EmptyMap, [n \in {"req_id"} |-> "id"],
                [n \in {"req_id", "span_id"} |-> IF n = "req_id" THEN "id" ELSE "span"]}

NoExtractor == "nil"
Extractors == {"tracing"}

DefaultSlowThreshold == 200
Durations == {-1, 0, 2, DefaultSlowThreshold}
Elapsed == {0, 2, 200, 1000}

\* the log levels of gorm.io/gorm/logger that LogMode is called with
LevelSilent == "Silent"
LevelError == "Error"
LevelWarn == "Warn"
LevelInfo == "Info"
LogLevels == {LevelSilent, LevelError, LevelWarn, LevelInfo}

\* a context.Context: nil, or the values it carries by context key
NilCtx == [isNil |-> TRUE, vals |-> [k \in {} |-> ""]]
Background == [isNil |-> FALSE, vals |-> [k \in {} |-> ""]]
CtxWithId == [isNil |-> FALSE, vals |-> [k \in {"id"} |-> "123"]]
CtxWithTrace == [isNil |-> FALSE,
                 vals |-> [k \in {"id", "trace_id"} |-> IF k = "id" THEN "123" ELSE "abc123"]]
Contexts == {NilCtx, Background, CtxWithTrace}

\* the caller's frame, as runtime.Caller reports it
Callers == {[dir |-> "/app/", file |-> "main.go", line |-> 45]}

\* what the accessor fc() handed to Trace returns
Statements == {[sql |-> "SELECT * FROM users", rows |-> 69]}

\* format strings, split at their verbs, and the arguments given with them
Formats == {<<"warn msg">>, <<"info msg: ", "%v">>}
ArgLists == {<<>>, <<"hello world!">>}

\* errors handed to Trace
NoErr == "nil"
ErrRecordNotFound == "record not found"
OtherErr == "connection error"
Errs == {NoErr, ErrRecordNotFound, OtherErr}

----------------------------------------------------------------------------
\* config.go

\* fault: NewConfig leaving slowThreshold at its zero value
NewConfig_NoDefaultThreshold(h) ==
    [slogHandler |-> h, slowThreshold |-> 0,
     ignoreRecordNotFoundError |-> FALSE, parameterizedQueries |-> FALSE,
     silent |-> FALSE, traceAll |-> FALSE,
     contextKeys |-> NilMap, contextExtractor |-> NoExtractor,
     groupKey |-> "", errorKey |-> "error", slowThresholdKey |-> "slow_threshold",
     queryKey |-> "query", durationKey |-> "duration", rowsKey |-> "rows",
     sourceKey |-> "file", fullSourcePath |-> FALSE,
     okMsg |-> "Query OK", slowMsg |-> "Query SLOW", errorMsg |-> "Query ERROR"]

\* The struct NewConfig returns for a non-nil handler; contextKeys is filled in
\* by the caller with the address of the fresh empty map.
NewConfig(h) ==
    [slogHandler |-> h, slowThreshold |-> DefaultSlowThreshold,
     ignoreRecordNotFoundError |-> FALSE, parameterizedQueries |-> FALSE,
     silent |-> FALSE, traceAll |-> FALSE,
     contextKeys |-> NilMap, contextExtractor |-> NoExtractor,
     groupKey |-> "", errorKey |-> "error", slowThresholdKey |-> "slow_threshold",
     queryKey |-> "query", durationKey |-> "duration", rowsKey |-> "rows",
     sourceKey |-> "file", fullSourcePath |-> FALSE,
     okMsg |-> "Query OK", slowMsg |-> "Query SLOW", errorMsg |-> "Query ERROR"]

\* fault: NewConfig without its nil check
NewConfigPanics_Never(h) == FALSE

\* if h == nil { panic("nil Handler") }
NewConfigPanics(h) == h = NilHandler

\* fault: clone keeping the receiver's map
clone_SharedMap(cfg, newMap) == cfg

\* nc := *c; nc.contextKeys = <the fresh map>
clone(cfg, newMap) == [cfg EXCEPT !.contextKeys = newMap]

\* fault: clone leaving the new map empty
cloneMap_NoCopy(m) == EmptyMap

\* for k, v := range c.contextKeys { nc.contextKeys[k] = v }; ranging over a
\* nil map copies nothing
cloneMap(m) == IF m = NilMap THEN EmptyMap ELSE maps[m]

\* fault: WithSlowThreshold taking a duration of zero or less for the default
WithSlowThreshold_DefaultIfNotPositive(cfg, v) ==
    [cfg EXCEPT !.slowThreshold = IF v > 0 THEN v ELSE DefaultSlowThreshold]

\* fault: WithSlowThreshold dropping its argument
WithSlowThreshold_Ignored(cfg, v) == cfg

WithSlowThreshold(cfg, v) == [cfg EXCEPT !.slowThreshold = v]

\* fault: WithIgnoreRecordNotFoundError dropping its argument
WithIgnoreRecordNotFoundError_Noop(cfg, v) == cfg

\* fault: WithIgnoreRecordNotFoundError setting true whatever it is given
WithIgnoreRecordNotFoundError_AlwaysTrue(cfg, v) == [cfg EXCEPT !.ignoreRecordNotFoundError = TRUE]

WithIgnoreRecordNotFoundError(cfg, v) == [cfg EXCEPT !.ignoreRecordNotFoundError = v]

\* fault: WithParameterizedQueries dropping its argument
WithParameterizedQueries_Noop(cfg, v) == cfg

WithParameterizedQueries(cfg, v) == [cfg EXCEPT !.parameterizedQueries = v]

\* fault: WithSilent dropping its argument
WithSilent_Noop(cfg, v) == cfg

\* fault: WithSilent writing traceAll
WithSilent_SetsTraceAll(cfg, v) == [cfg EXCEPT !.traceAll = ~v]

WithSilent(cfg, v) == [cfg EXCEPT !.silent = v]

\* fault: WithTraceAll dropping its argument
WithTraceAll_Noop(cfg, v) == cfg

WithTraceAll(cfg, v) == [cfg EXCEPT !.traceAll = v]

\* fault: WithContextKeys dropping its argument
WithContextKeys_Noop(cfg, v) == cfg

WithContextKeys(cfg, v) == [cfg EXCEPT !.contextKeys = v]

WithContextExtractor(cfg, v) == [cfg EXCEPT !.contextExtractor = v]

\* fault: WithGroupKey dropping its argument
WithGroupKey_Noop(cfg, v) == cfg

WithGroupKey(cfg, v) == [cfg EXCEPT !.groupKey = v]

\* fault: WithErrorKey dropping its argument
WithErrorKey_Noop(cfg, v) == cfg

WithErrorKey(cfg, v) == [cfg EXCEPT !.errorKey = v]

WithSlowThresholdKey(cfg, v) == [cfg EXCEPT !.slowThresholdKey = v]

\* fault: WithQueryKey writing durationKey
WithQueryKey_SetsDurationKey(cfg, v) == [cfg EXCEPT !.durationKey = v]

WithQueryKey(cfg, v) == [cfg EXCEPT !.queryKey = v]

WithDurationKey(cfg, v) == [cfg EXCEPT !.durationKey = v]

WithRowsKey(cfg, v) == [cfg EXCEPT !.rowsKey = v]

WithSourceKey(cfg, v) == [cfg EXCEPT !.sourceKey = v]

WithFullSourcePath(cfg, v) == [cfg EXCEPT !.fullSourcePath = v]

WithOkMsg(cfg, v) == [cfg EXCEPT !.okMsg = v]

WithSlowMsg(cfg, v) == [cfg EXCEPT !.slowMsg = v]

WithErrorMsg(cfg, v) == [cfg EXCEPT !.errorMsg = v]

----------------------------------------------------------------------------
\* logger.go (from the specification, sections 4.3 and 4.4)

\* one slog.Attr: a number, a string or a group of attributes
NumAttr(k, kind, n) == [key |-> k, kind |-> kind, n |-> n, s |-> "", group |-> <<>>]
StrAttr(k, kind, s) == [key |-> k, kind |-> kind, n |-> 0, s |-> s, group |-> <<>>]
GroupAttr(k, as) == [key |-> k, kind |-> "group", n |-> 0, s |-> "", group |-> as]

\* a field name set to "" drops its attribute
Opt(k, a) == IF k = "" THEN <<>> ELSE <<a>>

\* ctx.Value(key): the value, or "" for the nil interface
Value(ctx, key) == IF key \in DOMAIN ctx.vals THEN ctx.vals[key] ELSE ""

\* the attributes of the contextKeys entries, in the order the map was ranged
\* over; an entry whose key the context does not carry gives none, and so
\* does every entry when the context is nil
RECURSIVE contextKeyAttrs(_, _, _)
contextKeyAttrs(m, ctx, order) ==
    IF order = <<>> \/ ctx.isNil THEN <<>>
    ELSE LET k == Head(order)
             v == Value(ctx, m[k])
         IN  (IF v = "" THEN <<>> ELSE <<StrAttr(k, "context", v)>>)
             \o contextKeyAttrs(m, ctx, Tail(order))

\* the caller's contextExtractor: opaque to the adapter
Extract(ex, ctx) ==
    IF ex = "tracing" THEN <<StrAttr("trace_id", "extracted", Value(ctx, "trace_id"))>>
    ELSE <<>>

\* context-derived attributes: contextKeys, then contextExtractor when set
contextAttrs(cfg, m, ctx, order) ==
    contextKeyAttrs(m, ctx, order)
    \o (IF cfg.contextExtractor = NoExtractor THEN <<>> ELSE Extract(cfg.contextExtractor, ctx))

\* fmt.Sprintf on a format split at its verbs
RECURSIVE Sprintf(_, _)
Sprintf(format, args) ==
    IF format = <<>>
    THEN IF args = <<>> THEN "" ELSE "%!(EXTRA string=" \o Head(args) \o ")"
    ELSE IF Head(format) = "%v"
         THEN IF args = <<>> THEN "%!v(MISSING)" \o Sprintf(Tail(format), args)
              ELSE Head(args) \o Sprintf(Tail(format), Tail(args))
         ELSE Head(format) \o Sprintf(Tail(format), args)

Record(cfg, level, msg, attrs) ==
    [handler |-> cfg.slogHandler, level |-> level, msg |-> msg, attrs |-> attrs]

\* Info, Warn, Error: nothing when silent, else one record at the level
log(cfg, m, ctx, order, level, format, args) ==
    IF cfg.silent THEN <<>>
    ELSE <<Record(cfg, level, Sprintf(format, args), contextAttrs(cfg, m, ctx, order))>>

\* file:line of the caller, base name unless fullSourcePath
source(cfg, caller) ==
    (IF cfg.fullSourcePath THEN caller.dir \o caller.file ELSE caller.file)
    \o ":" \o ToString(caller.line)

\* step 3 of the classification: the error counts
isError(cfg, err) ==
    err # NoErr /\ (err # ErrRecordNotFound \/ ~cfg.ignoreRecordNotFoundError)

\* step 4 of the classification: the statement is slow
isSlow(cfg, elapsed) == cfg.slowThreshold > 0 /\ elapsed >= cfg.slowThreshold

\* the class of a statement, first match wins
classify(cfg, elapsed, err) ==
    IF cfg.silent THEN "none"
    ELSE IF isError(cfg, err) THEN "ERROR"
    ELSE IF isSlow(cfg, elapsed) THEN "WARN"
    ELSE IF cfg.traceAll THEN "INFO"
    ELSE "none"

\* the trace-derived attributes of a record of class cls
traceAttrs(cfg, cls, elapsed, stmt, err, caller) ==
    Opt(cfg.durationKey, NumAttr(cfg.durationKey, "duration", elapsed))
    \o Opt(cfg.rowsKey, NumAttr(cfg.rowsKey, "rows", stmt.rows))
    \o Opt(cfg.sourceKey, StrAttr(cfg.sourceKey, "source", source(cfg, caller)))
    \o (IF cls = "ERROR" THEN Opt(cfg.errorKey, StrAttr(cfg.errorKey, "error", err))
        ELSE IF cls = "WARN"
        THEN Opt(cfg.slowThresholdKey,
                 NumAttr(cfg.slowThresholdKey, "slow_threshold", cfg.slowThreshold))
        ELSE <<>>)
    \o Opt(cfg.queryKey, StrAttr(cfg.queryKey, "query", stmt.sql))

\* nested under groupKey when it is set
grouped(cfg, as) == IF cfg.groupKey = "" THEN as ELSE <<GroupAttr(cfg.groupKey, as)>>

traceMsg(cfg, cls) ==
    IF cls = "ERROR" THEN cfg.errorMsg ELSE IF cls = "WARN" THEN cfg.slowMsg ELSE cfg.okMsg

\* Trace: the records handed to the handler for one statement
Trace(cfg, m, ctx, order, elapsed, stmt, err, caller) ==
    LET cls == classify(cfg, elapsed, err)
    IN  IF cls = "none" THEN <<>>
        ELSE <<Record(cfg, cls, traceMsg(cfg, cls),
                      contextAttrs(cfg, m, ctx, order)
                      \o grouped(cfg, traceAttrs(cfg, cls, elapsed, stmt, err, caller)))>>

\* ParamsFilter: the SQL as given, the parameters unless parameterizedQueries
ParamsFilter(cfg, sql, params) ==
    [sql |-> sql, params |-> IF cfg.parameterizedQueries THEN <<>> ELSE params,
     nilParams |-> cfg.parameterizedQueries]

\* LogMode: the configuration of the derived adapter for Silent and Info
LogModeConfig(cfg, level, newMap) ==
    IF level = LevelSilent
    THEN WithTraceAll(WithSilent(clone(cfg, newMap), TRUE), FALSE)
    ELSE WithSilent(WithTraceAll(clone(cfg, newMap), TRUE), FALSE)

\* fault: LogMode deriving a new adapter at every level
LogModeDerives_Always(level) == TRUE

\* LogMode derives a new adapter for Silent and Info only
LogModeDerives(level) == level \in {LevelSilent, LevelInfo}

----------------------------------------------------------------------------
\* State

NoCall == [op |-> "", self |-> 0, in |-> <<>>]
NoRet == [kind |-> "none", addr |-> 0]
ConfigRet(c) == [kind |-> "config", addr |-> c]
LoggerRet(l) == [kind |-> "logger", addr |-> l]

Init ==
    /\ cfgs = <<>>
    /\ maps = <<>>
    /\ loggers = <<>>
    /\ call = NoCall
    /\ ret = NoRet
    /\ emitted = <<>>
    /\ panicked = ""
    /\ lastSet = <<>>
    /\ pristine = <<>>
    /\ nops = 0
    /\ chain = <<>>

\* the contents of a config's contextKeys map
mapOf(cfg) == IF cfg.contextKeys = NilMap THEN EmptyMap ELSE maps[cfg.contextKeys]

\* the orders in which a range over map m can visit its keys
Orders(m) ==
    {o \in [1..Cardinality(DOMAIN m) -> DOMAIN m] :
        \A i, j \in DOMAIN o : i # j => o[i] # o[j]}

\* the defaults section 6 of the specification documents, for the history
Documented(h, m) ==
    [slogHandler |-> h, slowThreshold |-> 200,
     ignoreRecordNotFoundError |-> FALSE, parameterizedQueries |-> FALSE,
     silent |-> FALSE, traceAll |-> FALSE,
     contextKeys |-> m, contextExtractor |-> NoExtractor,
     groupKey |-> "", errorKey |-> "error", slowThresholdKey |-> "slow_threshold",
     queryKey |-> "query", durationKey |-> "duration", rowsKey |-> "rows",
     sourceKey |-> "file", fullSourcePath |-> FALSE,
     okMsg |-> "Query OK", slowMsg |-> "Query SLOW", errorMsg |-> "Query ERROR"]

----------------------------------------------------------------------------
\* Operations of config.go

CallNewConfig(h) ==
    /\ call' = [op |-> "NewConfig", self |-> 0, in |-> [h |-> h]]
    /\ emitted' = <<>>
    /\ UNCHANGED loggers
    /\ IF NewConfigPanics(h)
       THEN /\ panicked' = "nil Handler"
            /\ ret' = NoRet
            /\ UNCHANGED <<cfgs, maps, lastSet, pristine>>
       ELSE /\ Len(cfgs) < MaxCfgs
            /\ Len(maps) < MaxMaps
            /\ panicked' = ""
            /\ maps' = Append(maps, EmptyMap)
            /\ cfgs' = Append(cfgs, [NewConfig(h) EXCEPT !.contextKeys = Len(maps) + 1])
            /\ lastSet' = Append(lastSet, Documented(h, Len(maps) + 1))
            /\ pristine' = Append(pristine, TRUE)
            /\ ret' = ConfigRet(Len(cfgs) + 1)

CallClone(c) ==
    /\ Len(cfgs) < MaxCfgs
    /\ Len(maps) < MaxMaps
    /\ maps' = Append(maps, cloneMap(cfgs[c].contextKeys))
    /\ cfgs' = Append(cfgs, clone(cfgs[c], Len(maps) + 1))
    /\ lastSet' = Append(lastSet, clone(cfgs[c], Len(maps) + 1))
    /\ pristine' = Append(pristine, FALSE)
    /\ call' = [op |-> "clone", self |-> c, in |-> <<>>]
    /\ ret' = ConfigRet(Len(cfgs) + 1)
    /\ emitted' = <<>>
    /\ panicked' = ""
    /\ UNCHANGED loggers

\* c.<field> = v; return c
Setter(op, c, field, v, new) ==
    /\ cfgs' = [cfgs EXCEPT ![c] = new]
    /\ lastSet' = [lastSet EXCEPT ![c][field] = v]
    /\ pristine' = [pristine EXCEPT ![c] = FALSE]
    /\ call' = [op |-> op, self |-> c, in |-> [field |-> field, v |-> v]]
    /\ ret' = ConfigRet(c)
    /\ emitted' = <<>>
    /\ panicked' = ""
    /\ UNCHANGED loggers

CallWithSlowThreshold(c, v) ==
    /\ Setter("WithSlowThreshold", c, "slowThreshold", v, WithSlowThreshold(cfgs[c], v))
    /\ UNCHANGED maps

CallWithIgnoreRecordNotFoundError(c, v) ==
    /\ Setter("WithIgnoreRecordNotFoundError", c, "ignoreRecordNotFoundError", v,
              WithIgnoreRecordNotFoundError(cfgs[c], v))
    /\ UNCHANGED maps

CallWithParameterizedQueries(c, v) ==
    /\ Setter("WithParameterizedQueries", c, "parameterizedQueries", v,
              WithParameterizedQueries(cfgs[c], v))
    /\ UNCHANGED maps

CallWithSilent(c, v) ==
    /\ Setter("WithSilent", c, "silent", v, WithSilent(cfgs[c], v))
    /\ UNCHANGED maps

CallWithTraceAll(c, v) ==
    /\ Setter("WithTraceAll", c, "traceAll", v, WithTraceAll(cfgs[c], v))
    /\ UNCHANGED maps

\* v is nil, a map the caller already holds, or a fresh map literal
CallWithContextKeys(c) ==
    \/ \E v \in 0..Len(maps) :
          /\ Setter("WithContextKeys", c, "contextKeys", v, WithContextKeys(cfgs[c], v))
          /\ UNCHANGED maps
    \/ \E lit \in MapLiterals :
          /\ Len(maps) < MaxMaps
          /\ maps' = Append(maps, lit)
          /\ Setter("WithContextKeys", c, "contextKeys", Len(maps) + 1,
                    WithContextKeys(cfgs[c], Len(maps) + 1))

CallWithContextExtractor(c, v) ==
    /\ Setter("WithContextExtractor", c, "contextExtractor", v,
              WithContextExtractor(cfgs[c], v))
    /\ UNCHANGED maps

CallWithGroupKey(c, v) ==
    /\ Setter("WithGroupKey", c, "groupKey", v, WithGroupKey(cfgs[c], v))
    /\ UNCHANGED maps

CallWithErrorKey(c, v) ==
    /\ Setter("WithErrorKey", c, "errorKey", v, WithErrorKey(cfgs[c], v))
    /\ UNCHANGED maps

CallWithSlowThresholdKey(c, v) ==
    /\ Setter("WithSlowThresholdKey", c, "slowThresholdKey", v,
              WithSlowThresholdKey(cfgs[c], v))
    /\ UNCHANGED maps

CallWithQueryKey(c, v) ==
    /\ Setter("WithQueryKey", c, "queryKey", v, WithQueryKey(cfgs[c], v))
    /\ UNCHANGED maps

CallWithDurationKey(c, v) ==
    /\ Setter("WithDurationKey", c, "durationKey", v, WithDurationKey(cfgs[c], v))
    /\ UNCHANGED maps

CallWithRowsKey(c, v) ==
    /\ Setter("WithRowsKey", c, "rowsKey", v, WithRowsKey(cfgs[c], v))
    /\ UNCHANGED maps

CallWithSourceKey(c, v) ==
    /\ Setter("WithSourceKey", c, "sourceKey", v, WithSourceKey(cfgs[c], v))
    /\ UNCHANGED maps

CallWithFullSourcePath(c, v) ==
    /\ Setter("WithFullSourcePath", c, "fullSourcePath", v, WithFullSourcePath(cfgs[c], v))
    /\ UNCHANGED maps

CallWithOkMsg(c, v) ==
    /\ Setter("WithOkMsg", c, "okMsg", v, WithOkMsg(cfgs[c], v))
    /\ UNCHANGED maps

CallWithSlowMsg(c, v) ==
    /\ Setter("WithSlowMsg", c, "slowMsg", v, WithSlowMsg(cfgs[c], v))
    /\ UNCHANGED maps

CallWithErrorMsg(c, v) ==
    /\ Setter("WithErrorMsg", c, "errorMsg", v, WithErrorMsg(cfgs[c], v))
    /\ UNCHANGED maps

\* The caller of WithContextKeys keeps the map it handed over, and clone
\* fills the map it made: both write through the address a config holds.
MapKeys == {"req_id", "span_id"}
MapVals == {"id", "span"}

\* contextKeys[k] = v: adds the entry or replaces it; a nil map cannot be
\* assigned to
MapStore(c, k, v) ==
    LET a == cfgs[c].contextKeys
        old == maps[a]
    IN  /\ a # NilMap
        /\ maps' = [maps EXCEPT ![a] = [n \in DOMAIN old \cup {k} |->
                                            IF n = k THEN v ELSE old[n]]]
        /\ call' = [op |-> "store", self |-> c, in |-> [k |-> k, v |-> v]]
        /\ ret' = NoRet
        /\ emitted' = <<>>
        /\ panicked' = ""
        /\ UNCHANGED <<cfgs, loggers, lastSet, pristine>>

\* delete(contextKeys, k): removes the entry if there is one
MapDelete(c, k) ==
    LET a == cfgs[c].contextKeys
    IN  /\ maps' = IF a = NilMap THEN maps
                   ELSE [maps EXCEPT ![a] = [n \in DOMAIN maps[a] \ {k} |-> maps[a][n]]]
        /\ call' = [op |-> "delete", self |-> c, in |-> [k |-> k]]
        /\ ret' = NoRet
        /\ emitted' = <<>>
        /\ panicked' = ""
        /\ UNCHANGED <<cfgs, loggers, lastSet, pristine>>

----------------------------------------------------------------------------
\* Operations of the adapter

\* New(): an adapter on NewConfig(slog.Default().Handler())
CallNew ==
    /\ Len(cfgs) < MaxCfgs
    /\ Len(maps) < MaxMaps
    /\ Len(loggers) < MaxLoggers
    /\ maps' = Append(maps, EmptyMap)
    /\ cfgs' = Append(cfgs, [NewConfig(DefaultHandler) EXCEPT !.contextKeys = Len(maps) + 1])
    /\ lastSet' = Append(lastSet, Documented(DefaultHandler, Len(maps) + 1))
    /\ pristine' = Append(pristine, TRUE)
    /\ loggers' = Append(loggers, [config |-> Len(cfgs) + 1])
    /\ call' = [op |-> "New", self |-> 0, in |-> <<>>]
    /\ ret' = LoggerRet(Len(loggers) + 1)
    /\ emitted' = <<>>
    /\ panicked' = ""

\* NewWithConfig(cfg): an adapter holding cfg
CallNewWithConfig(c) ==
    /\ Len(loggers) < MaxLoggers
    /\ loggers' = Append(loggers, [config |-> c])
    /\ call' = [op |-> "NewWithConfig", self |-> 0, in |-> [c |-> c]]
    /\ ret' = LoggerRet(Len(loggers) + 1)
    /\ emitted' = <<>>
    /\ panicked' = ""
    /\ UNCHANGED <<cfgs, maps, lastSet, pristine>>

CallLogMode(l, level) ==
    /\ call' = [op |-> "LogMode", self |-> l, in |-> [level |-> level]]
    /\ emitted' = <<>>
    /\ panicked' = ""
    /\ IF LogModeDerives(level)
       THEN /\ Len(cfgs) < MaxCfgs
            /\ Len(maps) < MaxMaps
            /\ Len(loggers) < MaxLoggers
            /\ maps' = Append(maps, cloneMap(cfgs[loggers[l].config].contextKeys))
            /\ cfgs' = Append(cfgs, LogModeConfig(cfgs[loggers[l].config], level, Len(maps) + 1))
            /\ lastSet' = Append(lastSet,
                                 LogModeConfig(cfgs[loggers[l].config], level, Len(maps) + 1))
            /\ pristine' = Append(pristine, FALSE)
            /\ loggers' = Append(loggers, [config |-> Len(cfgs) + 1])
            /\ ret' = LoggerRet(Len(loggers) + 1)
       ELSE /\ ret' = LoggerRet(l)
            /\ UNCHANGED <<cfgs, maps, loggers, lastSet, pristine>>

\* Info, Warn and Error share one body; op names the method, level its severity
CallLog(op, level, l, ctx, format, args) ==
    LET cfg == cfgs[loggers[l].config]
    IN  \E order \in Orders(mapOf(cfg)) :
          /\ emitted' = log(cfg, mapOf(cfg), ctx, order, level, format, args)
          /\ call' = [op |-> op, self |-> l,
                      in |-> [ctx |-> ctx, order |-> order, format |-> format, args |-> args]]
          /\ ret' = NoRet
          /\ panicked' = ""
          /\ UNCHANGED <<cfgs, maps, loggers, lastSet, pristine>>

CallInfo(l, ctx, format, args) == CallLog("Info", "INFO", l, ctx, format, args)

CallWarn(l, ctx, format, args) == CallLog("Warn", "WARN", l, ctx, format, args)

CallError(l, ctx, format, args) == CallLog("Error", "ERROR", l, ctx, format, args)

CallTrace(l, ctx, elapsed, stmt, err, caller) ==
    LET cfg == cfgs[loggers[l].config]
    IN  \E order \in Orders(mapOf(cfg)) :
          /\ emitted' = Trace(cfg, mapOf(cfg), ctx, order, elapsed, stmt, err, caller)
          /\ call' = [op |-> "Trace", self |-> l,
                      in |-> [ctx |-> ctx, order |-> order, elapsed |-> elapsed,
                              stmt |-> stmt, err |-> err, caller |-> caller]]
          /\ ret' = NoRet
          /\ panicked' = ""
          /\ UNCHANGED <<cfgs, maps, loggers, lastSet, pristine>>

CallParamsFilter(l, sql, params) ==
    /\ ret' = [kind |-> "params", addr |-> 0,
               out |-> ParamsFilter(cfgs[loggers[l].config], sql, params)]
    /\ call' = [op |-> "ParamsFilter", self |-> l, in |-> [sql |-> sql, params |-> params]]
    /\ emitted' = <<>>
    /\ panicked' = ""
    /\ UNCHANGED <<cfgs, maps, loggers, lastSet, pristine>>

----------------------------------------------------------------------------
\* Specifications

Bools == {TRUE, FALSE}
Names == {"", "k"}
Msgs == {"", "Yeah!"}
ParamLists == {<<>>, <<"imdatngo">>}
Cfgs == 1..Len(cfgs)
Loggers == 1..Len(loggers)

\* one more operation, of at most MaxOps
Counted == nops < MaxOps /\ nops' = nops + 1 /\ UNCHANGED chain

\* the whole program: every operation on every object built so far
Next ==
    \/ \E h \in Handlers \cup {NilHandler} : Counted /\ CallNewConfig(h)
    \/ \E c \in Cfgs : Counted /\ CallClone(c)
    \/ \E c \in Cfgs, v \in Durations : Counted /\ CallWithSlowThreshold(c, v)
    \/ \E c \in Cfgs, v \in Bools : Counted /\ CallWithIgnoreRecordNotFoundError(c, v)
    \/ \E c \in Cfgs, v \in Bools : Counted /\ CallWithParameterizedQueries(c, v)
    \/ \E c \in Cfgs, v \in Bools : Counted /\ CallWithSilent(c, v)
    \/ \E c \in Cfgs, v \in Bools : Counted /\ CallWithTraceAll(c, v)
    \/ \E c \in Cfgs : Counted /\ CallWithContextKeys(c)
    \/ \E c \in Cfgs, v \in Extractors \cup {NoExtractor} :
          Counted /\ CallWithContextExtractor(c, v)
    \/ \E c \in Cfgs, v \in Names : Counted /\ CallWithGroupKey(c, v)
    \/ \E c \in Cfgs, v \in Names : Counted /\ CallWithErrorKey(c, v)
    \/ \E c \in Cfgs, v \in Names : Counted /\ CallWithSlowThresholdKey(c, v)
    \/ \E c \in Cfgs, v \in Names : Counted /\ CallWithQueryKey(c, v)
    \/ \E c \in Cfgs, v \in Names : Counted /\ CallWithDurationKey(c, v)
    \/ \E c \in Cfgs, v \in Names : Counted /\ CallWithRowsKey(c, v)
    \/ \E c \in Cfgs, v \in Names : Counted /\ CallWithSourceKey(c, v)
    \/ \E c \in Cfgs, v \in Bools : Counted /\ CallWithFullSourcePath(c, v)
    \/ \E c \in Cfgs, v \in Msgs : Counted /\ CallWithOkMsg(c, v)
    \/ \E c \in Cfgs, v \in Msgs : Counted /\ CallWithSlowMsg(c, v)
    \/ \E c \in Cfgs, v \in Msgs : Counted /\ CallWithErrorMsg(c, v)
    \/ Counted /\ CallNew
    \/ \E c \in Cfgs : Counted /\ CallNewWithConfig(c)
    \/ \E l \in Loggers, level \in LogLevels : Counted /\ CallLogMode(l, level)
    \/ \E l \in Loggers, f \in Formats, a \in ArgLists :
          Counted /\ CallInfo(l, CtxWithId, f, a)
    \/ \E l \in Loggers, f \in Formats, a \in ArgLists :
          Counted /\ CallWarn(l, Background, f, a)
    \/ \E l \in Loggers, f \in Formats, a \in ArgLists :
          Counted /\ CallError(l, NilCtx, f, a)
    \/ \E l \in Loggers, e \in {0, DefaultSlowThreshold}, s \in Statements, err \in Errs,
          caller \in Callers : Counted /\ CallTrace(l, CtxWithId, e, s, err, caller)
    \/ \E l \in Loggers, p \in ParamLists : Counted /\ CallParamsFilter(l, "SELECT ?", p)

Spec == Init /\ [][Next]_vars

\* The configurations the tests build before they hand them to NewWithConfig:
\* NewConfig(h) as it is, NewConfig(h).WithContextKeys(<two entries>), and the
\* chain of TestNewWithConfig that sets every field.
TwoKeys == [n \in {"req_id", "span_id"} |-> IF n = "req_id" THEN "id" ELSE "span"]

CustomConfig ==
    WithErrorMsg(WithSlowMsg(WithOkMsg(WithFullSourcePath(WithSourceKey(WithRowsKey(
    WithDurationKey(WithQueryKey(WithSlowThresholdKey(WithErrorKey(WithGroupKey(
    WithContextKeys(WithTraceAll(WithSilent(WithParameterizedQueries(
    WithIgnoreRecordNotFoundError(WithSlowThreshold(NewConfig("json"), 1000), TRUE),
    TRUE), TRUE), TRUE), 2), "db"), "err"), "threshold"), "sql"), "dur"), "count"),
    "src"), TRUE), "Yeah!"), "Hmmm..."), "Oops!")

\* what the setters of that chain were given
CustomSet ==
    [slogHandler |-> "json", slowThreshold |-> 1000,
     ignoreRecordNotFoundError |-> TRUE, parameterizedQueries |-> TRUE,
     silent |-> TRUE, traceAll |-> TRUE,
     contextKeys |-> 2, contextExtractor |-> NoExtractor,
     groupKey |-> "db", errorKey |-> "err", slowThresholdKey |-> "threshold",
     queryKey |-> "sql", durationKey |-> "dur", rowsKey |-> "count",
     sourceKey |-> "src", fullSourcePath |-> TRUE,
     okMsg |-> "Yeah!", slowMsg |-> "Hmmm...", errorMsg |-> "Oops!"]

Built ==
    {[cfg |-> [NewConfig(DefaultHandler) EXCEPT !.contextKeys = 1],
      set |-> Documented(DefaultHandler, 1),
      maps |-> <<EmptyMap>>, pristine |-> TRUE],
     [cfg |-> WithContextKeys(NewConfig(DefaultHandler), 2),
      set |-> Documented(DefaultHandler, 2),
      maps |-> <<EmptyMap, TwoKeys>>, pristine |-> FALSE],
     [cfg |-> CustomConfig,
      set |-> CustomSet,
      maps |-> <<EmptyMap, [n \in {"req_id"} |-> "id"]>>, pristine |-> FALSE]}

\* one adapter, just returned by New() or NewWithConfig(cfg)
InitAdapter ==
    \E b \in Built :
        /\ cfgs = <<b.cfg>>
        /\ maps = b.maps
        /\ loggers = <<[config |-> 1]>>
        /\ call = NoCall
        /\ ret = LoggerRet(1)
        /\ emitted = <<>>
        /\ panicked = ""
        /\ lastSet = <<b.set>>
        /\ pristine = <<b.pristine>>
        /\ nops = 0
        /\ chain = <<>>

Uncounted == UNCHANGED <<nops, chain>>

\* the logging operations of one adapter, under every setting of the fields
\* that decide what Trace emits
NextTrace ==
    \/ \E v \in Durations : Uncounted /\ CallWithSlowThreshold(1, v)
    \/ \E v \in Bools : Uncounted /\ CallWithIgnoreRecordNotFoundError(1, v)
    \/ \E v \in Bools : Uncounted /\ CallWithSilent(1, v)
    \/ \E v \in Bools : Uncounted /\ CallWithTraceAll(1, v)
    \/ \E v \in Names : Uncounted /\ CallWithSlowThresholdKey(1, v)
    \/ \E ctx \in Contexts, f \in Formats : Uncounted /\ CallInfo(1, ctx, f, <<"hello world!">>)
    \/ \E ctx \in Contexts, f \in Formats : Uncounted /\ CallWarn(1, ctx, f, <<>>)
    \/ \E ctx \in Contexts, f \in Formats : Uncounted /\ CallError(1, ctx, f, <<>>)
    \/ \E ctx \in Contexts, e \in Elapsed, s \in Statements, err \in Errs, caller \in Callers :
          Uncounted /\ CallTrace(1, ctx, e, s, err, caller)

SpecTrace == InitAdapter /\ [][NextTrace]_vars

\* adapters derived from one another by LogMode, with silent and traceAll of
\* every configuration set at will
NextMode ==
    \/ \E c \in Cfgs, v \in Bools : Uncounted /\ CallWithSilent(c, v)
    \/ \E c \in Cfgs, v \in Bools : Uncounted /\ CallWithTraceAll(c, v)
    \/ \E l \in Loggers, level \in LogLevels : Uncounted /\ CallLogMode(l, level)

SpecMode == InitAdapter /\ [][NextMode]_vars

\* one adapter that logs, just returned by New() or NewWithConfig(cfg)
InitAttrs == InitAdapter /\ ~cfgs[1].silent

\* Trace on one adapter, under every setting of the fields that name, group
\* and add attributes
NextAttrs ==
    \/ \E v \in Bools : Uncounted /\ CallWithTraceAll(1, v)
    \/ \E v \in Extractors \cup {NoExtractor} : Uncounted /\ CallWithContextExtractor(1, v)
    \/ \E v \in Names : Uncounted /\ CallWithGroupKey(1, v)
    \/ \E v \in Names : Uncounted /\ CallWithErrorKey(1, v)
    \/ \E v \in Names : Uncounted /\ CallWithSlowThresholdKey(1, v)
    \/ \E v \in Names : Uncounted /\ CallWithQueryKey(1, v)
    \/ \E v \in Names : Uncounted /\ CallWithDurationKey(1, v)
    \/ \E v \in Names : Uncounted /\ CallWithRowsKey(1, v)
    \/ \E v \in Names : Uncounted /\ CallWithSourceKey(1, v)
    \/ \E e \in {0, 1000}, s \in Statements, err \in {NoErr, OtherErr}, caller \in Callers :
          Uncounted /\ CallTrace(1, CtxWithTrace, e, s, err, caller)

SpecAttrs == InitAttrs /\ [][NextAttrs]_vars

\* Info, Warn and Error on one adapter, under every setting of silent,
\* contextKeys and contextExtractor
NextLog ==
    \/ \E v \in Bools : Uncounted /\ CallWithSilent(1, v)
    \/ Uncounted /\ CallWithContextKeys(1)
    \/ \E v \in Extractors \cup {NoExtractor} : Uncounted /\ CallWithContextExtractor(1, v)
    \/ \E ctx \in Contexts \cup {CtxWithId}, f \in Formats :
          Uncounted /\ CallInfo(1, ctx, f, <<"hello world!">>)
    \/ \E ctx \in Contexts \cup {CtxWithId}, f \in Formats :
          Uncounted /\ CallWarn(1, ctx, f, <<>>)
    \/ \E ctx \in Contexts \cup {CtxWithId}, f \in Formats :
          Uncounted /\ CallError(1, ctx, f, <<>>)

SpecLog == InitAdapter /\ [][NextLog]_vars

\* the statements and bound values handed to ParamsFilter
Sqls == {"", "SELECT 1", "SELECT * FROM users WHERE name = ?"}
ParamValues == {"imdatngo", "69"}
ParamsUpTo2 == {<<>>} \cup {<<a>> : a \in ParamValues}
               \cup {<<a, b>> : a \in ParamValues, b \in ParamValues}

\* ParamsFilter on one adapter, under both settings of parameterizedQueries
NextParams ==
    \/ \E v \in Bools : Uncounted /\ CallWithParameterizedQueries(1, v)
    \/ \E v \in Bools : Uncounted /\ CallWithSilent(1, v)
    \/ \E sql \in Sqls, p \in ParamsUpTo2 : Uncounted /\ CallParamsFilter(1, sql, p)

SpecParams == InitAdapter /\ [][NextParams]_vars

\* Trace on one adapter, under every setting of the fields that decide the
\* class of a statement, and of the name of the error attribute
NextClass ==
    \/ \E v \in Durations : Uncounted /\ CallWithSlowThreshold(1, v)
    \/ \E v \in Bools : Uncounted /\ CallWithIgnoreRecordNotFoundError(1, v)
    \/ \E v \in Bools : Uncounted /\ CallWithSilent(1, v)
    \/ \E v \in Bools : Uncounted /\ CallWithTraceAll(1, v)
    \/ \E v \in Names : Uncounted /\ CallWithErrorKey(1, v)
    \/ \E e \in Elapsed, s \in Statements, err \in Errs, caller \in Callers :
          Uncounted /\ CallTrace(1, Background, e, s, err, caller)

SpecClass == InitAdapter /\ [][NextClass]_vars

\* the adapter a chain of LogMode calls has come to: the one the last call
\* returned, or the initial adapter
Tip == IF chain = <<>> THEN 1 ELSE ret.addr

\* one more LogMode call of the chain, of at most MaxChain
Chained(level) ==
    /\ Len(chain) < MaxChain
    /\ chain' = Append(chain, level)
    /\ UNCHANGED nops

\* l.LogMode(a).LogMode(b)...: each call on the result of the one before
NextChain == \E level \in LogLevels : Chained(level) /\ CallLogMode(Tip, level)

SpecChain == InitAdapter /\ [][NextChain]_vars

\* one configuration and its clones: setters on each of them, and entries
\* added to, replaced in and removed from the maps they hold
NextClone ==
    \/ Counted /\ CallClone(1)
    \/ \E c \in Cfgs, v \in Bools : Counted /\ CallWithSilent(c, v)
    \/ \E c \in Cfgs : Counted /\ CallWithContextKeys(c)
    \/ \E c \in Cfgs, k \in MapKeys, v \in MapVals : Counted /\ MapStore(c, k, v)
    \/ \E c \in Cfgs, k \in MapKeys : Counted /\ MapDelete(c, k)

SpecClone == InitAdapter /\ [][NextClone]_vars

----------------------------------------------------------------------------
\* Properties of the logging operations (checked under SpecTrace)

LogOps == {"Info", "Warn", "Error", "Trace"}

\* the configuration of the adapter last called: as the setters were given it,
\* and as the struct holds it
Conf == lastSet[loggers[call.self].config]
Held == cfgs[loggers[call.self].config]

\* the leaf attributes of a record, those inside a group included
Leaves(r) ==
    {r.attrs[i] : i \in {j \in DOMAIN r.attrs : r.attrs[j].kind # "group"}}
    \cup UNION {{r.attrs[i].group[j] : j \in DOMAIN r.attrs[i].group} :
                  i \in {j \in DOMAIN r.attrs : r.attrs[j].kind = "group"}}

\* exactly one record, of this level and message
OneRecord(level, msg) ==
    /\ Len(emitted) = 1
    /\ emitted[1].level = level
    /\ emitted[1].msg = msg

\* the error does not make the statement an ERROR: nil, or the sentinel while
\* ignoreRecordNotFoundError is set
Harmless(err) ==
    err = NoErr \/ (err = ErrRecordNotFound /\ Conf.ignoreRecordNotFoundError)

\* C1: on an adapter whose configuration has silent=true, Info, Warn, Error and
\* Trace hand no record to the handler, whatever the error, the elapsed time,
\* slowThreshold, ignoreRecordNotFoundError and traceAll.
C1_SilentEmitsNothing ==
    (call.op \in LogOps /\ (Conf.silent \/ Held.silent)) => emitted = <<>>

C1_Witness ==
    /\ call.op = "Trace"
    /\ Conf.silent /\ Conf.traceAll
    /\ call.in.err = OtherErr
    /\ Conf.slowThreshold > 0 /\ call.in.elapsed >= Conf.slowThreshold
    /\ emitted = <<>>

\* C2: on a non-silent adapter, a Trace call with a non-nil error that is not
\* the sentinel, or that arrives while ignoreRecordNotFoundError=false, emits
\* exactly one record, at ERROR with the configured error message, for every
\* elapsed time, slowThreshold and traceAll.
C2_ErrorAlwaysLogged ==
    (/\ call.op = "Trace"
     /\ ~Conf.silent
     /\ call.in.err # NoErr
     /\ (call.in.err # ErrRecordNotFound \/ ~Conf.ignoreRecordNotFoundError))
    => OneRecord("ERROR", Conf.errorMsg)

C2_Witness ==
    /\ call.op = "Trace"
    /\ ~Conf.silent /\ ~Conf.traceAll
    /\ call.in.err = ErrRecordNotFound /\ ~Conf.ignoreRecordNotFoundError
    /\ call.in.elapsed < Conf.slowThreshold
    /\ OneRecord("ERROR", "Oops!")

\* C3: on a non-silent adapter with ignoreRecordNotFoundError=true, a Trace call
\* with the sentinel emits exactly what the same call with a nil error emits;
\* no attribute carries the error; the record is SLOW, OK or absent by elapsed
\* time, slowThreshold and traceAll alone.
C3_SentinelIgnored ==
    (/\ call.op = "Trace"
     /\ ~Conf.silent
     /\ Conf.ignoreRecordNotFoundError
     /\ call.in.err = ErrRecordNotFound)
    => /\ emitted = Trace(Held, mapOf(Held), call.in.ctx, call.in.order, call.in.elapsed,
                          call.in.stmt, NoErr, call.in.caller)
       /\ \A i \in DOMAIN emitted : \A a \in Leaves(emitted[i]) : a.kind # "error"
       /\ IF Conf.slowThreshold > 0 /\ call.in.elapsed >= Conf.slowThreshold
          THEN OneRecord("WARN", Conf.slowMsg)
          ELSE IF Conf.traceAll THEN OneRecord("INFO", Conf.okMsg)
          ELSE emitted = <<>>

C3_Witness ==
    /\ call.op = "Trace"
    /\ ~Conf.silent /\ Conf.ignoreRecordNotFoundError /\ ~Conf.traceAll
    /\ call.in.err = ErrRecordNotFound
    /\ call.in.elapsed < Conf.slowThreshold
    /\ emitted = <<>>

\* C4 as claimed: on a non-silent adapter, a Trace call with elapsed >=
\* slowThreshold and a harmless error emits exactly one WARN record with the
\* slow message, carrying the slow-threshold attribute.
C4_Original ==
    (/\ call.op = "Trace"
     /\ ~Conf.silent
     /\ Harmless(call.in.err)
     /\ call.in.elapsed >= Conf.slowThreshold)
    => /\ OneRecord("WARN", Conf.slowMsg)
       /\ \E a \in Leaves(emitted[1]) :
             a.kind = "slow_threshold" /\ a.n = Conf.slowThreshold

\* C4 amended: on a non-silent adapter with slowThreshold > 0, a Trace call with
\* elapsed >= slowThreshold and a harmless error emits exactly one WARN record
\* with the slow message, whatever traceAll; it carries the slow-threshold
\* attribute, named slowThresholdKey and equal to the threshold, exactly when
\* slowThresholdKey is not empty.
C4_SlowWarns ==
    (/\ call.op = "Trace"
     /\ ~Conf.silent
     /\ Harmless(call.in.err)
     /\ Conf.slowThreshold > 0
     /\ call.in.elapsed >= Conf.slowThreshold)
    => /\ OneRecord("WARN", Conf.slowMsg)
       /\ (Conf.slowThresholdKey # "") <=>
             (\E a \in Leaves(emitted[1]) : a.kind = "slow_threshold")
       /\ \A a \in Leaves(emitted[1]) :
             a.kind = "slow_threshold" =>
                a.key = Conf.slowThresholdKey /\ a.n = Conf.slowThreshold

C4_Witness ==
    /\ call.op = "Trace"
    /\ ~Conf.silent /\ ~Conf.traceAll
    /\ call.in.err = NoErr
    /\ Conf.slowThreshold = 2 /\ call.in.elapsed = 200
    /\ OneRecord("WARN", "Query SLOW")
    /\ \E a \in Leaves(emitted[1]) : a.key = "slow_threshold" /\ a.n = 2

\* C5: on a non-silent adapter, a Trace call with elapsed < slowThreshold and no
\* error emits a record if and only if traceAll=true: then exactly one INFO
\* record with the ok message, otherwise nothing.
C5_FastOkOnlyWhenTraceAll ==
    (/\ call.op = "Trace"
     /\ ~Conf.silent
     /\ call.in.err = NoErr
     /\ call.in.elapsed < Conf.slowThreshold)
    => IF Conf.traceAll THEN OneRecord("INFO", Conf.okMsg) ELSE emitted = <<>>

C5_Witness ==
    /\ call.op = "Trace"
    /\ ~Conf.silent /\ Conf.traceAll
    /\ call.in.err = NoErr
    /\ call.in.elapsed < Conf.slowThreshold
    /\ OneRecord("INFO", "Query OK")

----------------------------------------------------------------------------
\* Properties of LogMode (checked under SpecMode)

Fields == DOMAIN NewConfig(DefaultHandler)

\* C6: LogMode(Silent) and LogMode(Info) return a new adapter, distinct from
\* the receiver, on a new configuration with (silent, traceAll) = (true, false)
\* for Silent and (false, true) for Info; every other field equals the
\* receiver's, the context keys as an equal map of its own; the receiver and
\* its configuration are as before the call.
C6_Step ==
    LET l == call'.self
        rc == loggers[l].config
        nl == ret'.addr
        nc == loggers'[nl].config
    IN  (call'.op = "LogMode" /\ call'.in.level \in {LevelSilent, LevelInfo})
        => /\ ret'.kind = "logger"
           /\ nl # l /\ nl \notin DOMAIN loggers /\ nl \in DOMAIN loggers'
           /\ nc # rc /\ nc \notin DOMAIN cfgs /\ nc \in DOMAIN cfgs'
           /\ cfgs'[nc].silent = (call'.in.level = LevelSilent)
           /\ cfgs'[nc].traceAll = (call'.in.level = LevelInfo)
           /\ \A f \in Fields \ {"silent", "traceAll", "contextKeys"} :
                 cfgs'[nc][f] = cfgs[rc][f]
           /\ cfgs'[nc].contextKeys # cfgs[rc].contextKeys
           /\ cfgs'[nc].contextKeys \notin DOMAIN maps
           /\ maps'[cfgs'[nc].contextKeys] = mapOf(cfgs[rc])
           /\ \A c \in DOMAIN cfgs : cfgs'[c] = cfgs[c]
           /\ \A m \in DOMAIN maps : maps'[m] = maps[m]
           /\ \A k \in DOMAIN loggers : loggers'[k] = loggers[k]

\* C6: every LogMode(Silent) or LogMode(Info) step returns a new adapter on a
\* cloned configuration and leaves every existing adapter, configuration and
\* map as it was.
C6_LogModeDerives == [][C6_Step]_vars

C6_Witness ==
    /\ call.op = "LogMode" /\ call.in.level = LevelSilent
    /\ ret.addr # call.self
    /\ cfgs[loggers[call.self].config].traceAll
    /\ ~cfgs[loggers[call.self].config].silent
    /\ mapOf(cfgs[loggers[call.self].config]) # EmptyMap
    /\ cfgs[loggers[ret.addr].config].silent
    /\ ~cfgs[loggers[ret.addr].config].traceAll

\* C7: LogMode(Warn) and LogMode(Error) return the receiver itself, derived or
\* not, and change nothing: no configuration, map or adapter is made or altered.
C7_Step ==
    (call'.op = "LogMode" /\ call'.in.level \in {LevelWarn, LevelError})
    => /\ ret' = LoggerRet(call'.self)
       /\ cfgs' = cfgs
       /\ maps' = maps
       /\ loggers' = loggers

\* C7: every LogMode(Warn) or LogMode(Error) step returns the adapter it was
\* called on and changes no configuration, map or adapter.
C7_LogModeKeeps == [][C7_Step]_vars

C7_Witness ==
    /\ call.op = "LogMode" /\ call.in.level = LevelWarn
    /\ call.self > 1
    /\ ret = LoggerRet(call.self)
    /\ cfgs[loggers[call.self].config].silent
    /\ ~cfgs[loggers[call.self].config].traceAll

----------------------------------------------------------------------------
\* Properties of the configuration (checked under Spec)

SetterOps ==
    {"WithSlowThreshold", "WithIgnoreRecordNotFoundError", "WithParameterizedQueries",
     "WithSilent", "WithTraceAll", "WithContextKeys", "WithContextExtractor",
     "WithGroupKey", "WithErrorKey", "WithSlowThresholdKey", "WithQueryKey",
     "WithDurationKey", "WithRowsKey", "WithSourceKey", "WithFullSourcePath",
     "WithOkMsg", "WithSlowMsg", "WithErrorMsg"}

\* C8: an operation panics if and only if it is NewConfig with a nil handler;
\* the panic value is "nil Handler" and no configuration is returned; NewConfig
\* with a handler returns a configuration, and every setter stores the value it
\* is given, negative durations and empty strings included.
C8_OnlyNilHandlerPanics ==
    /\ (panicked # "") <=> (call.op = "NewConfig" /\ call.in.h = NilHandler)
    /\ panicked # "" => (panicked = "nil Handler" /\ ret = NoRet)
    /\ (call.op = "NewConfig" /\ call.in.h # NilHandler)
          => (ret = ConfigRet(Len(cfgs)) /\ cfgs[Len(cfgs)].slogHandler = call.in.h)
    /\ call.op \in SetterOps
          => (ret = ConfigRet(call.self) /\ cfgs[call.self][call.in.field] = call.in.v)

C8_Witness ==
    /\ call.op = "NewConfig" /\ call.in.h = NilHandler
    /\ panicked = "nil Handler"
    /\ Len(cfgs) = 1
    /\ cfgs[1].slowThreshold = -1

Apply(f, cfg, v) ==
    CASE f = "slowThreshold" -> WithSlowThreshold(cfg, v)
      [] f = "ignoreRecordNotFoundError" -> WithIgnoreRecordNotFoundError(cfg, v)
      [] f = "parameterizedQueries" -> WithParameterizedQueries(cfg, v)
      [] f = "silent" -> WithSilent(cfg, v)
      [] f = "traceAll" -> WithTraceAll(cfg, v)
      [] f = "contextKeys" -> WithContextKeys(cfg, v)
      [] f = "contextExtractor" -> WithContextExtractor(cfg, v)
      [] f = "groupKey" -> WithGroupKey(cfg, v)
      [] f = "errorKey" -> WithErrorKey(cfg, v)
      [] f = "slowThresholdKey" -> WithSlowThresholdKey(cfg, v)
      [] f = "queryKey" -> WithQueryKey(cfg, v)
      [] f = "durationKey" -> WithDurationKey(cfg, v)
      [] f = "rowsKey" -> WithRowsKey(cfg, v)
      [] f = "sourceKey" -> WithSourceKey(cfg, v)
      [] f = "fullSourcePath" -> WithFullSourcePath(cfg, v)
      [] f = "okMsg" -> WithOkMsg(cfg, v)
      [] f = "slowMsg" -> WithSlowMsg(cfg, v)
      [] f = "errorMsg" -> WithErrorMsg(cfg, v)

\* the arguments tried for the setter of a field
ArgsOf(f) ==
    CASE f = "slowThreshold" -> Durations
      [] f \in {"ignoreRecordNotFoundError", "parameterizedQueries", "silent", "traceAll",
                "fullSourcePath"} -> Bools
      [] f = "contextKeys" -> 0..Len(maps)
      [] f = "contextExtractor" -> Extractors \cup {NoExtractor}
      [] f \in {"okMsg", "slowMsg", "errorMsg"} -> Msgs
      [] OTHER -> Names

\* every configuration reads back, field by field, as the last value a setter
\* gave that field, or the documented default
C10_LastApplied == \A c \in DOMAIN cfgs : cfgs[c] = lastSet[c]

\* a setter call stores its argument in its own field of the receiver, changes
\* no other field, configuration or map, returns the receiver, and commutes
\* with every setter of another field
C10_Step ==
    LET c == call'.self
        f == call'.in.field
        v == call'.in.v
    IN  call'.op \in SetterOps
        => /\ ret' = ConfigRet(c)
           /\ DOMAIN cfgs' = DOMAIN cfgs
           /\ cfgs'[c][f] = v
           /\ \A g \in Fields \ {f} : cfgs'[c][g] = cfgs[c][g]
           /\ \A d \in DOMAIN cfgs \ {c} : cfgs'[d] = cfgs[d]
           /\ \A m \in DOMAIN maps : maps'[m] = maps[m]
           /\ \A g \in Fields \ {f, "slogHandler"} : \A w \in ArgsOf(g) :
                 Apply(g, cfgs'[c], w) = Apply(f, Apply(g, cfgs[c], w), v)

\* C10: after NewConfig and any sequence of With* calls, each field reads back
\* as the last value set for it, or its default; every setter changes only its
\* own field, returns the instance it was called on, and setters of distinct
\* fields commute.
C10_SettersRoundTrip == []C10_LastApplied /\ [][C10_Step]_vars

C10_Witness ==
    /\ call.op = "WithSilent" /\ call.in.v = FALSE
    /\ nops = 3
    /\ cfgs[call.self].slowThreshold = -1
    /\ ~cfgs[call.self].silent
    /\ ret = ConfigRet(call.self)

----------------------------------------------------------------------------
\* Properties of clone (checked under SpecClone, where configuration 1 is the
\* original and every other configuration is a clone of it)

\* the map a configuration holds after the step
mapOfNext(c) == IF cfgs'[c].contextKeys = NilMap THEN EmptyMap ELSE maps'[cfgs'[c].contextKeys]

\* two configurations hold the same map
Shares(x, y) == cfgs[x].contextKeys = cfgs[y].contextKeys /\ cfgs[x].contextKeys # NilMap

SharesNext(x, y) == cfgs'[x].contextKeys = cfgs'[y].contextKeys /\ cfgs'[x].contextKeys # NilMap

\* clone returns a new instance with the receiver's handler and fields, on a
\* map of its own that no configuration held, equal to the receiver's
CloneStep ==
    LET o == call'.self
        n == ret'.addr
    IN  call'.op = "clone"
        => /\ ret'.kind = "config"
           /\ n \notin DOMAIN cfgs /\ n \in DOMAIN cfgs'
           /\ \A f \in Fields \ {"contextKeys"} : cfgs'[n][f] = cfgs[o][f]
           /\ cfgs'[n].contextKeys # NilMap
           /\ cfgs'[n].contextKeys \notin DOMAIN maps
           /\ maps'[cfgs'[n].contextKeys] = mapOf(cfgs[o])
           /\ \A d \in DOMAIN cfgs : cfgs'[d] = cfgs[d] /\ mapOfNext(d) = mapOf(cfgs[d])

\* the step is a change made through configuration x: a setter call on it, or
\* an entry added to, replaced in or removed from the map it holds
ChangeThrough(x) == call'.self = x /\ call'.op \in SetterOps \cup {"store", "delete"}

Untouched(y) == cfgs'[y] = cfgs[y] /\ mapOfNext(y) = mapOf(cfgs[y])

\* C11 as claimed: clone returns a new instance with the original's handler
\* and an equal, separate map; after it, every setter call on the clone and
\* every change of an entry of the clone's map leaves the original's fields
\* and map as they were, and every such change to the original leaves the
\* clone as it was.
C11_Original ==
    [][/\ CloneStep
       /\ \A c \in DOMAIN cfgs \ {1} :
             /\ ChangeThrough(c) => Untouched(1)
             /\ ChangeThrough(1) => Untouched(c)]_vars

\* C11 amended: clone returns a new instance with the original's handler and
\* an equal, separate map; original and clone come to hold the same map only
\* by a WithContextKeys call on one of them; while they hold separate maps,
\* every setter call on one and every change of an entry of its map leaves the
\* other's fields and map as they were.
C11_CloneIndependent ==
    [][/\ CloneStep
       /\ \A c \in DOMAIN cfgs \ {1} :
             /\ (ChangeThrough(c) /\ ~Shares(c, 1)) => Untouched(1)
             /\ (ChangeThrough(1) /\ ~Shares(c, 1)) => Untouched(c)
             /\ (~Shares(c, 1) /\ SharesNext(c, 1))
                   => call'.op = "WithContextKeys" /\ call'.self \in {1, c}]_vars

C11_Witness ==
    /\ Len(cfgs) >= 2
    /\ call.op = "store" /\ call.self = 2
    /\ cfgs[1].contextKeys # cfgs[2].contextKeys
    /\ mapOf(cfgs[1]) = TwoKeys
    /\ mapOf(cfgs[2]) # TwoKeys
    /\ cfgs[2].slogHandler = cfgs[1].slogHandler

----------------------------------------------------------------------------
\* Properties of the attributes of Trace records (checked under SpecAttrs)

TraceKinds == {"error", "slow_threshold", "query", "duration", "rows", "source"}
ContextKinds == {"context", "extracted"}

\* the attributes of a list that are of the kinds ks, in order
OfKinds(as, ks) ==
    LET Test(a) == a.kind \in ks
    IN  SelectSeq(as, Test)

\* what the call made last would emit on configuration cfg
TraceOn(cfg) ==
    Trace(cfg, mapOf(cfg), call.in.ctx, call.in.order, call.in.elapsed,
          call.in.stmt, call.in.err, call.in.caller)

\* C12: with groupKey non-empty, a Trace record has the trace-derived
\* attributes of its class inside the one group named groupKey and none of them
\* at top level, and the attributes from contextKeys and contextExtractor at
\* top level and none of them in the group; with groupKey empty every
\* attribute is at top level.  The attributes are those of the same call with
\* no grouping.
C12_GroupNesting ==
    call.op = "Trace"
    => LET flat == TraceOn([Held EXCEPT !.groupKey = ""])
       IN  /\ Len(emitted) = Len(flat)
           /\ \A i \in DOMAIN emitted :
                 LET as == emitted[i].attrs
                     groups == OfKinds(as, {"group"})
                 IN  /\ OfKinds(as, ContextKinds) = OfKinds(flat[i].attrs, ContextKinds)
                     /\ OfKinds(as, ContextKinds) \o OfKinds(as, TraceKinds) \o groups = as
                     /\ IF Conf.groupKey = ""
                        THEN /\ groups = <<>>
                             /\ as = flat[i].attrs
                        ELSE /\ OfKinds(as, TraceKinds) = <<>>
                             /\ Len(groups) <= 1
                             /\ OfKinds(flat[i].attrs, TraceKinds) # <<>> => Len(groups) = 1
                             /\ \A g \in DOMAIN groups :
                                   /\ groups[g].key = Conf.groupKey
                                   /\ groups[g].group = OfKinds(flat[i].attrs, TraceKinds)

C12_Witness ==
    /\ call.op = "Trace"
    /\ Conf.groupKey = "k"
    /\ Conf.contextExtractor = "tracing"
    /\ mapOf(Held) = TwoKeys
    /\ call.in.err = OtherErr
    /\ Len(emitted) = 1
    /\ Len(emitted[1].attrs) = 3
    /\ emitted[1].attrs[1].key = "req_id"
    /\ emitted[1].attrs[2].key = "trace_id"
    /\ emitted[1].attrs[3].key = "k"
    /\ Len(emitted[1].attrs[3].group) = 5

\* the kind of attribute each field-name override names
KeyFields ==
    [errorKey |-> "error", slowThresholdKey |-> "slow_threshold", queryKey |-> "query",
     durationKey |-> "duration", rowsKey |-> "rows", sourceKey |-> "source"]

\* a list of attributes less those of one kind, at top level and in groups
Less(as, kind) ==
    LET kept == OfKinds(as, (TraceKinds \cup ContextKinds \cup {"group"}) \ {kind})
    IN  [i \in DOMAIN kept |->
            IF kept[i].kind = "group"
            THEN [kept[i] EXCEPT !.group = OfKinds(@, TraceKinds \ {kind})]
            ELSE kept[i]]

\* C13: with one of the six field names set to "", a Trace call emits what it
\* emits with that name non-empty, less the one attribute the name is for: the
\* same records at the same severity with the same message, and every other
\* attribute with its name and value.
C13_EmptyNameDropsOne ==
    call.op = "Trace"
    => \A f \in DOMAIN KeyFields :
          Conf[f] = ""
          => LET named == TraceOn([Held EXCEPT ![f] = "k"])
             IN  /\ Len(emitted) = Len(named)
                 /\ \A i \in DOMAIN emitted :
                       /\ emitted[i] = [named[i] EXCEPT !.attrs = Less(@, KeyFields[f])]
                       /\ \A a \in Leaves(emitted[i]) : a.kind # KeyFields[f]

C13_Witness ==
    /\ call.op = "Trace"
    /\ Conf.errorKey = "" /\ Conf.groupKey = ""
    /\ Conf.queryKey # "" /\ Conf.durationKey # "" /\ Conf.rowsKey # "" /\ Conf.sourceKey # ""
    /\ call.in.err = OtherErr
    /\ OneRecord("ERROR", "Query ERROR")
    /\ {a.kind : a \in Leaves(emitted[1])} = {"duration", "rows", "source", "query"}

----------------------------------------------------------------------------
\* Properties of Info, Warn and Error (checked under SpecLog)

SeverityOf == [Info |-> "INFO", Warn |-> "WARN", Error |-> "ERROR"]

\* the contextKeys map as WithContextKeys was given it
ConfMap == IF Conf.contextKeys = NilMap THEN EmptyMap ELSE maps[Conf.contextKeys]

\* the entries of the configured map whose context key the context carries
Carried(ctx) == {n \in DOMAIN ConfMap : ~ctx.isNil /\ ConfMap[n] \in DOMAIN ctx.vals}

\* on a non-silent adapter Info, Warn and Error emit one record at their
\* severity with the formatted message, to the configured handler; it has one
\* attribute per contextKeys entry whose key the context carries, named as
\* mapped and holding the context's value, none for the other entries, and the
\* attributes of the contextExtractor when one is set
LogRecord ==
    (call.op \in DOMAIN SeverityOf /\ ~Conf.silent)
    => /\ OneRecord(SeverityOf[call.op], Sprintf(call.in.format, call.in.args))
       /\ emitted[1].handler = Conf.slogHandler
       /\ LET as == emitted[1].attrs
              ctx == call.in.ctx
              fromKeys == OfKinds(as, {"context"})
          IN  /\ OfKinds(as, ContextKinds) = as
              /\ Len(fromKeys) = Cardinality(Carried(ctx))
              /\ \A n \in Carried(ctx) : \E i \in DOMAIN fromKeys :
                    fromKeys[i].key = n /\ fromKeys[i].s = ctx.vals[ConfMap[n]]
              /\ \A i \in DOMAIN fromKeys : fromKeys[i].key \in Carried(ctx)
              /\ OfKinds(as, {"extracted"}) =
                    IF Conf.contextExtractor = NoExtractor THEN <<>>
                    ELSE Extract(Conf.contextExtractor, ctx)

ErrorWithoutContext == call.op = "Error" /\ ~Conf.silent /\ call.in.ctx.isNil

----------------------------------------------------------------------------
\* Properties of ParamsFilter (checked under SpecParams)

\* what ParamsFilter returned: the SQL it was given; no parameter list with
\* parameterizedQueries set, else the list it was given; and no record
ParamsReturned ==
    call.op = "ParamsFilter"
    => /\ ret.kind = "params"
       /\ ret.out.sql = call.in.sql
       /\ IF Conf.parameterizedQueries
          THEN ret.out.nilParams /\ ret.out.params = <<>>
          ELSE ~ret.out.nilParams /\ ret.out.params = call.in.params
       /\ emitted = <<>>
       /\ panicked = ""

\* a ParamsFilter call leaves every configuration, map and adapter as it was
ParamsStep ==
    call'.op = "ParamsFilter" => (cfgs' = cfgs /\ maps' = maps /\ loggers' = loggers)

\* C15: ParamsFilter returns the SQL text unchanged; with parameterizedQueries
\* set it returns no parameter list, whatever it was given, and otherwise the
\* list it was given, same values in the same order; it emits no record and
\* changes no field of any configuration.
C15_ParamsFilter == []ParamsReturned /\ [][ParamsStep]_vars

C15_Witness ==
    /\ call.op = "ParamsFilter"
    /\ ~Conf.parameterizedQueries
    /\ Conf.silent
    /\ call.in.params = <<"imdatngo", "69">>
    /\ ret.out.params = <<"imdatngo", "69">>
    /\ ret.out.sql = "SELECT * FROM users WHERE name = ?"

----------------------------------------------------------------------------
\* Properties of the classification of Trace (checked under SpecClass)

\* the error makes the statement an ERROR
Qualifies(err) == err # NoErr /\ (err # ErrRecordNotFound \/ ~Conf.ignoreRecordNotFoundError)

\* the statement took the threshold or more, and there is a threshold
TookLong(elapsed) == Conf.slowThreshold > 0 /\ elapsed >= Conf.slowThreshold

\* the severities of the records emitted
Severities == {emitted[i].level : i \in DOMAIN emitted}

\* first match in the order silent, ERROR, SLOW, OK, nothing; at most one
\* record; a WARN record exactly for a slow statement without a qualifying
\* error on a non-silent adapter with a threshold above zero; no
\* slow-threshold attribute on an ERROR record
FirstMatch ==
    call.op = "Trace"
    => LET err == call.in.err
           elapsed == call.in.elapsed
       IN  /\ Len(emitted) <= 1
           /\ Severities =
                 IF Conf.silent THEN {}
                 ELSE IF Qualifies(err) THEN {"ERROR"}
                 ELSE IF TookLong(elapsed) THEN {"WARN"}
                 ELSE IF Conf.traceAll THEN {"INFO"}
                 ELSE {}
           /\ ("WARN" \in Severities)
                 <=> (~Conf.silent /\ ~Qualifies(err) /\ TookLong(elapsed))
           /\ Conf.slowThreshold <= 0 => "WARN" \notin Severities
           /\ (Conf.slowThreshold <= 0 /\ ~Conf.silent /\ ~Qualifies(err))
                 => Severities = IF Conf.traceAll THEN {"INFO"} ELSE {}
           /\ (~Conf.silent /\ Qualifies(err) /\ TookLong(elapsed))
                 => /\ OneRecord("ERROR", Conf.errorMsg)
                    /\ \A a \in Leaves(emitted[1]) : a.kind # "slow_threshold"

FailedAndSlow ==
    /\ call.op = "Trace"
    /\ ~Conf.silent
    /\ Qualifies(call.in.err)
    /\ TookLong(call.in.elapsed)

\* C16 as claimed: the classification is first match in the order silent,
\* ERROR, SLOW, OK, nothing, with at most one record; a threshold of zero or
\* less never gives a SLOW record; a statement both failed and slow gives one
\* ERROR record that carries the error attribute and no slow-threshold
\* attribute.
C16_Original ==
    /\ FirstMatch
    /\ FailedAndSlow
          => \E a \in Leaves(emitted[1]) : a.kind = "error" /\ a.s = call.in.err

\* C16 amended: the classification is first match in the order silent, ERROR,
\* SLOW, OK, nothing, with at most one record; a threshold of zero or less
\* never gives a SLOW record; a statement both failed and slow gives one ERROR
\* record with no slow-threshold attribute, and with the error attribute,
\* named errorKey, exactly when errorKey is not empty.
C16_FirstMatch ==
    /\ FirstMatch
    /\ FailedAndSlow
          => /\ (Conf.errorKey # "")
                   <=> (\E a \in Leaves(emitted[1]) : a.kind = "error")
             /\ \A a \in Leaves(emitted[1]) :
                   a.kind = "error" => (a.key = Conf.errorKey /\ a.s = call.in.err)

C16_Witness ==
    /\ call.op = "Trace"
    /\ ~Conf.silent /\ Conf.traceAll
    /\ Conf.slowThreshold = 2 /\ call.in.elapsed = 1000
    /\ call.in.err = OtherErr
    /\ OneRecord("ERROR", "Query ERROR")
    /\ \E a \in Leaves(emitted[1]) : a.key = "error" /\ a.s = OtherErr
    /\ \A a \in Leaves(emitted[1]) : a.kind # "slow_threshold"

----------------------------------------------------------------------------
\* Properties of chains of LogMode calls (checked under SpecChain)

\* the level of the last LogMode(Silent) or LogMode(Info) of the chain
LastDerived ==
    LET at == {i \in DOMAIN chain : chain[i] \in {LevelSilent, LevelInfo}}
    IN  IF at = {} THEN "none"
        ELSE chain[CHOOSE i \in at : \A j \in at : j <= i]

Pair(cfg) == <<cfg.silent, cfg.traceAll>>

\* the records the adapter on cfg hands over for each statement and message
TraceRecords(cfg) ==
    {Trace(cfg, mapOf(cfg), Background, o, e, s, err, caller) :
        o \in Orders(mapOf(cfg)), e \in Elapsed, s \in Statements, err \in Errs,
        caller \in Callers}

LogRecords(cfg) ==
    {log(cfg, mapOf(cfg), Background, o, "ERROR", f, <<>>) :
        o \in Orders(mapOf(cfg)), f \in Formats}

\* the adapter the chain has come to has (silent, traceAll) = (true, false)
\* if the last Silent or Info call was Silent, (false, true) if it was Info,
\* and the pair the initial adapter was built with if there was none; after
\* Info it logs every statement and after Silent nothing, whatever Warn and
\* Error calls followed; the initial adapter has the pair it was built with
ChainPair ==
    LET tip == cfgs[loggers[Tip].config]
    IN  /\ Pair(tip) = CASE LastDerived = LevelSilent -> <<TRUE, FALSE>>
                         [] LastDerived = LevelInfo -> <<FALSE, TRUE>>
                         [] OTHER -> Pair(lastSet[1])
        /\ LastDerived = LevelInfo => <<>> \notin TraceRecords(tip)
        /\ LastDerived = LevelSilent
              => (TraceRecords(tip) = {<<>>} /\ LogRecords(tip) = {<<>>})
        /\ LastDerived = "none" => Tip = 1
        /\ loggers[1].config = 1
        /\ Pair(cfgs[1]) = Pair(lastSet[1])

\* a Warn or Error call returns the adapter it was called on, with its pair;
\* no call changes the initial adapter, its configuration or its map
ChainStep ==
    /\ (call'.op = "LogMode" /\ call'.in.level \in {LevelWarn, LevelError})
          => /\ ret'.addr = call'.self
             /\ Pair(cfgs'[loggers'[ret'.addr].config]) = Pair(cfgs[loggers[call'.self].config])
    /\ loggers'[1] = loggers[1]
    /\ cfgs'[1] = cfgs[1]
    /\ mapOfNext(1) = mapOf(cfgs[1])

\* C17: after LogMode calls chained from an initial adapter, the last adapter
\* has (silent, traceAll) = (true, false) if the last Silent or Info call was
\* Silent, (false, true) if it was Info, and the initial pair if there was
\* none; Warn and Error never change the pair; the initial adapter keeps its
\* pair and its context-key map throughout.
C17_LogModeChain == []ChainPair /\ [][ChainStep]_vars

C17_Witness ==
    /\ chain = <<LevelSilent, LevelWarn, LevelInfo, LevelError>>
    /\ Tip = 3
    /\ Pair(cfgs[loggers[Tip].config]) = <<FALSE, TRUE>>
    /\ Pair(cfgs[2]) = <<TRUE, FALSE>>
    /\ Pair(cfgs[1]) = <<FALSE, FALSE>>
    /\ mapOf(cfgs[1]) = TwoKeys

====
